---- MODULE Spec2Model ----
(***************************************************************************)
(* Sandbox lifecycle manager of the Agent-Ops backend                      *)
(* (backend/sandboxes.py, backend/session.py, backend/app.py,              *)
(* backend/config.py).                                                     *)
(*                                                                         *)
(* Python strings are modelled as sequences of tokens: "" is << >>, a      *)
(* concatenation is \o.  A dict is a function whose DOMAIN is its key set. *)
(* An Optional value is << >> (None) or <<v>>.                             *)
(***************************************************************************)
EXTENDS Integers, Sequences, FiniteSets, Bags, TLC

(***************************************************************************)
(* Bounds of the model.                                                    *)
(***************************************************************************)
MaxEnvVars == 3
MaxOtherPorts == 2
MaxCallers == 2
MaxSandboxes == 2
MaxIdLen == 2

(***************************************************************************)
(* config.py                                                               *)
(***************************************************************************)
OPENCODE_PORT == 4096
GATEWAY_PORT == 9000

EmptyStr == << >>
None == << >>
Some(v) == <<v>>

\* os.environ: a dict from names to strings.  get_secret(name, default="")
get_secret(env, name) ==
    IF name \in DOMAIN env THEN env[name] ELSE EmptyStr

(***************************************************************************)
(* Python helpers                                                          *)
(***************************************************************************)
EmptyDict == [k \in {} |-> EmptyStr]

\* truthiness of an Optional[dict] / Optional[list]: None and empty are falsy
TruthyDict(opt) == opt # None /\ DOMAIN opt[1] # {}
TruthyList(opt) == opt # None /\ Len(opt[1]) > 0

\* d.update(e): keys of e are added or overwritten with e's value
DictUpdate(d, e) ==
    [k \in DOMAIN d \cup DOMAIN e |-> IF k \in DOMAIN e THEN e[k] ELSE d[k]]

\* d[key] = value
DictSet(d, key, value) ==
    [k \in DOMAIN d \cup {key} |-> IF k = key THEN value ELSE d[k]]

\* {k: v for k, v in d.items() if v}
StripEmpty(d) ==
    [k \in {j \in DOMAIN d : d[j] # EmptyStr} |-> d[k]]

\* json.dumps of a list of persona file descriptors: "[" item ", " item "]";
\* each descriptor is serialized as an object "{" ... "}"
RECURSIVE JsonItems(_)
JsonItems(files) ==
    IF Len(files) = 0 THEN << >>
    ELSE IF Len(files) = 1 THEN <<"{">> \o files[1] \o <<"}">>
    ELSE <<"{">> \o files[1] \o <<"}", ", ">> \o JsonItems(Tail(files))

json_dumps(files) == <<"[">> \o JsonItems(files) \o <<"]">>

(***************************************************************************)
(* sandboxes.py: secret composition of create_sandbox and restore_sandbox  *)
(***************************************************************************)
CoreSecrets(config, env) ==
    [k \in {"DO_WS_URL", "RUNNER_TOKEN", "SESSION_ID", "JWT_SECRET",
            "OPENCODE_SERVER_PASSWORD"} |->
        CASE k = "DO_WS_URL" -> config.do_ws_url
          [] k = "RUNNER_TOKEN" -> config.runner_token
          [] k = "SESSION_ID" -> config.session_id
          [] k = "JWT_SECRET" -> config.jwt_secret
          [] k = "OPENCODE_SERVER_PASSWORD" ->
                get_secret(env, "OPENCODE_SERVER_PASSWORD")]

\* create_sandbox with the precedence reversed: the caller's env_vars are
\* applied after the core secrets
CreateSecrets_CallerWins(config, env) ==
    LET base == IF TruthyDict(config.env_vars) THEN config.env_vars[1]
                ELSE EmptyDict
        core == DictUpdate(CoreSecrets(config, env), base)
        pers == IF TruthyList(config.persona_files)
                THEN DictSet(core, "PERSONA_FILES_JSON",
                             json_dumps(config.persona_files[1]))
                ELSE core
    IN  StripEmpty(pers)

\* create_sandbox starting from the whole process environment
CreateSecrets_EnvironBase(config, env) ==
    LET base == IF TruthyDict(config.env_vars)
                THEN DictUpdate(env, config.env_vars[1])
                ELSE env
        core == DictUpdate(base, CoreSecrets(config, env))
        pers == IF TruthyList(config.persona_files)
                THEN DictSet(core, "PERSONA_FILES_JSON",
                             json_dumps(config.persona_files[1]))
                ELSE core
    IN  StripEmpty(pers)

\* create_sandbox, lines 65-83
CreateSecrets(config, env) ==
    LET base == IF TruthyDict(config.env_vars) THEN config.env_vars[1]
                ELSE EmptyDict
        core == DictUpdate(base, CoreSecrets(config, env))
        pers == IF TruthyList(config.persona_files)
                THEN DictSet(core, "PERSONA_FILES_JSON",
                             json_dumps(config.persona_files[1]))
                ELSE core
    IN  StripEmpty(pers)

\* restore_sandbox without the final strip of empty values
RestoreSecrets_NoStrip(config, env) ==
    LET base == IF TruthyDict(config.env_vars) THEN config.env_vars[1]
                ELSE EmptyDict
        core == DictUpdate(base, CoreSecrets(config, env))
    IN  IF TruthyList(config.persona_files)
        THEN DictSet(core, "PERSONA_FILES_JSON",
                     json_dumps(config.persona_files[1]))
        ELSE core

\* restore_sandbox ignoring the caller's env_vars
RestoreSecrets_NoEnvVars(config, env) ==
    LET core == DictUpdate(EmptyDict, CoreSecrets(config, env))
        pers == IF TruthyList(config.persona_files)
                THEN DictSet(core, "PERSONA_FILES_JSON",
                             json_dumps(config.persona_files[1]))
                ELSE core
    IN  StripEmpty(pers)

\* restore_sandbox, lines 162-176
RestoreSecrets(config, env) ==
    LET base == IF TruthyDict(config.env_vars) THEN config.env_vars[1]
                ELSE EmptyDict
        core == DictUpdate(base, CoreSecrets(config, env))
        pers == IF TruthyList(config.persona_files)
                THEN DictSet(core, "PERSONA_FILES_JSON",
                             json_dumps(config.persona_files[1]))
                ELSE core
    IN  StripEmpty(pers)

(***************************************************************************)
(* sandboxes.py: tunnel resolution of create_sandbox and restore_sandbox   *)
(* tunnels: dict port -> url                                               *)
(***************************************************************************)
\* create_sandbox, lines 104-112
CreateTunnelUrls(tunnels) ==
    LET t0 == EmptyDict
        t1 == IF OPENCODE_PORT \in DOMAIN tunnels
              THEN DictSet(t0, "opencode", tunnels[OPENCODE_PORT]) ELSE t0
        gateway_url == tunnels[GATEWAY_PORT]
    IN  IF GATEWAY_PORT \in DOMAIN tunnels
        THEN DictSet(DictSet(DictSet(DictSet(t1,
                 "gateway", gateway_url),
                 "vscode", gateway_url \o <<"/vscode">>),
                 "vnc", gateway_url \o <<"/vnc">>),
                 "ttyd", gateway_url \o <<"/ttyd">>)
        ELSE t1

\* restore_sandbox with the gateway routes keyed on the primary port
RestoreTunnelUrls_WrongPort(tunnels) ==
    LET t0 == EmptyDict
        t1 == IF OPENCODE_PORT \in DOMAIN tunnels
              THEN DictSet(t0, "opencode", tunnels[OPENCODE_PORT]) ELSE t0
        gateway_url == tunnels[OPENCODE_PORT]
    IN  IF OPENCODE_PORT \in DOMAIN tunnels
        THEN DictSet(DictSet(DictSet(DictSet(t1,
                 "gateway", gateway_url),
                 "vscode", gateway_url \o <<"/vscode">>),
                 "vnc", gateway_url \o <<"/vnc">>),
                 "ttyd", gateway_url \o <<"/ttyd">>)
        ELSE t1

\* restore_sandbox, lines 197-205
RestoreTunnelUrls(tunnels) ==
    LET t0 == EmptyDict
        t1 == IF OPENCODE_PORT \in DOMAIN tunnels
              THEN DictSet(t0, "opencode", tunnels[OPENCODE_PORT]) ELSE t0
        gateway_url == tunnels[GATEWAY_PORT]
    IN  IF GATEWAY_PORT \in DOMAIN tunnels
        THEN DictSet(DictSet(DictSet(DictSet(t1,
                 "gateway", gateway_url),
                 "vscode", gateway_url \o <<"/vscode">>),
                 "vnc", gateway_url \o <<"/vnc">>),
                 "ttyd", gateway_url \o <<"/ttyd">>)
        ELSE t1

(***************************************************************************)
(* config.py: timeouts                                                     *)
(***************************************************************************)
DEFAULT_IDLE_TIMEOUT_SECONDS == 900
MODAL_IDLE_TIMEOUT_BUFFER_SECONDS == 1800
MAX_TIMEOUT_SECONDS == 86400

(***************************************************************************)
(* State.  The manager keeps no state of its own (SandboxManager.__init__  *)
(* stores only the app handle); everything durable lives in the backend.   *)
(***************************************************************************)
VARIABLES
    sandboxes,   \* backend: sandbox id -> "NonExistent" | "Running" | "Terminated"
    images,      \* backend: the number of snapshot images; their ids are 1..images
    volumes,     \* backend: names of the volumes that exist
    environ,     \* os.environ of the process
    ops,         \* the invocations of the manager's methods in progress (a bag)
    done,        \* the invocation the latest step completed, as its caller
                 \* saw it (NoOp when the latest step completed none)
    sc_config,   \* secret composition: the SandboxConfig given
    sc_bundle,   \* secret composition: Optional bundle passed to Secret.from_dict
    sc_by,       \* secret composition: "none" | "create" | "restore"
    tn_tunnels,  \* tunnel resolution: the dict sandbox.tunnels returned
    tn_urls,     \* tunnel resolution: Optional tunnel_urls
    tn_by,       \* tunnel resolution: "none" | "create" | "restore"
    rq_request,  \* one call: the fields the request-handling layer supplies
    rq_backend,  \* one call: what the backend answers (sandbox id, tunnels)
    rq_result,   \* one call: Optional outcome, with the request sent to the backend
    rq_by        \* one call: "none" or the entry point that was called

backendVars == <<sandboxes, images, volumes>>
lifecycleVars == <<sandboxes, images, volumes, ops, done>>
secretVars == <<sc_config, sc_bundle, sc_by>>
tunnelVars == <<tn_tunnels, tn_urls, tn_by>>
requestVars == <<rq_request, rq_backend, rq_result, rq_by>>
vars == <<sandboxes, images, volumes, environ, ops, done,
          sc_config, sc_bundle, sc_by, tn_tunnels, tn_urls, tn_by,
          rq_request, rq_backend, rq_result, rq_by>>

SandboxIds == 1..MaxSandboxes

Str(tok) == <<tok>>

\* SandboxConfig (sandboxes.py, lines 30-41)
SandboxConfig(session_id, do_ws_url, runner_token, jwt_secret, idle_timeout_seconds, env_vars, persona_files) ==
    [session_id |-> session_id,
     user_id |-> Str("u1"),
     workspace |-> Str("ws"),
     do_ws_url |-> do_ws_url,
     runner_token |-> runner_token,
     jwt_secret |-> jwt_secret,
     image_type |-> Str("base"),
     idle_timeout_seconds |-> idle_timeout_seconds,
     env_vars |-> env_vars,
     persona_files |-> persona_files]

\* workspace_volume_name, lines 56-59: "workspace-" + session_id with ':' -> '-'
workspace_volume_name(session_id) ==
    <<"workspace-">> \o
    [n \in 1..Len(session_id) |->
        IF session_id[n] = ":" THEN "-" ELSE session_id[n]]

(***************************************************************************)
(* Inputs                                                                  *)
(***************************************************************************)
Dicts(K, V) == UNION {[D -> V] : D \in SUBSET K}
BoundedDicts(K, V, n) ==
    UNION {[D -> V] : D \in {E \in SUBSET K : Cardinality(E) <= n}}

CoreKeys == {"DO_WS_URL", "RUNNER_TOKEN", "SESSION_ID", "JWT_SECRET"}
CallerKeys == CoreKeys \cup
    {"OPENCODE_SERVER_PASSWORD", "PERSONA_FILES_JSON", "ANTHROPIC_API_KEY"}
CallerValues == {EmptyStr, Str("x")}

\* Optional[dict[str, str]]: None, {} or up to MaxEnvVars entries
EnvVarsInputs ==
    {None} \cup {Some(d) : d \in BoundedDicts(CallerKeys, CallerValues, MaxEnvVars)}
\* Optional[list[dict]]
PersonaInputs == {None, Some(<< >>), Some(<<Str("p1")>>)}

SecretConfigs ==
    {SandboxConfig(sid, url, tok, jwt, DEFAULT_IDLE_TIMEOUT_SECONDS, ev, pf) :
        sid \in {EmptyStr, Str("s1")},
        url \in {EmptyStr, Str("wss://do")},
        tok \in {EmptyStr, Str("tok")},
        jwt \in {EmptyStr, Str("jwt")},
        ev \in EnvVarsInputs,
        pf \in PersonaInputs}

SecretEnvirons ==
    { EmptyDict,
      [k \in {"OPENCODE_SERVER_PASSWORD", "ANTHROPIC_API_KEY"} |->
          IF k = "ANTHROPIC_API_KEY" THEN Str("envkey") ELSE EmptyStr],
      [k \in {"OPENCODE_SERVER_PASSWORD", "ANTHROPIC_API_KEY"} |->
          IF k = "ANTHROPIC_API_KEY" THEN Str("envkey") ELSE Str("pw")] }

OtherPorts == {8080 + n : n \in 1..MaxOtherPorts}
TunnelUrlInputs == {Str("https://a.modal.host"), Str("https://b.modal.host")}
TunnelInputs ==
    Dicts({OPENCODE_PORT, GATEWAY_PORT} \cup OtherPorts, TunnelUrlInputs)

\* what the request-handling layer supplies for create / restore
\* (app.py, create_session 48-59, restore_session 130-143)
InboundRequest(session_id, idle_timeout_seconds, env_vars, persona_files, snapshot_image_id) ==
    [session_id |-> session_id,
     user_id |-> Str("u1"),
     workspace |-> Str("ws"),
     image_type |-> Str("base"),
     do_ws_url |-> Str("wss://do"),
     runner_token |-> Str("tok"),
     jwt_secret |-> Str("jwt"),
     idle_timeout_seconds |-> idle_timeout_seconds,
     env_vars |-> env_vars,
     persona_files |-> persona_files,
     snapshot_image_id |-> snapshot_image_id]

\* session ids over a character set with the colon and the hyphen
IdChars == {"a", ":", "-"}
SessionIds == UNION {[1..n -> IdChars] : n \in 1..MaxIdLen}
IdleTimeoutInputs == {0, DEFAULT_IDLE_TIMEOUT_SECONDS, MAX_TIMEOUT_SECONDS}
RequestEnvVars == {None, Some([k \in {"ANTHROPIC_API_KEY"} |-> Str("x")])}
RequestInputs ==
    {InboundRequest(sid, it, ev, pf, img) :
        sid \in SessionIds, it \in IdleTimeoutInputs, ev \in RequestEnvVars,
        pf \in PersonaInputs, img \in SandboxIds}
BackendAnswers ==
    [sandbox_id : SandboxIds,
     tunnels : Dicts({OPENCODE_PORT, GATEWAY_PORT}, {Str("https://a.modal.host")})]
RequestEnvirons ==
    {EmptyDict, [k \in {"OPENCODE_SERVER_PASSWORD"} |-> Str("pw")]}

(***************************************************************************)
(* Initial states                                                          *)
(***************************************************************************)
NoResult ==
    [kind |-> "pending", exc |-> "", sandbox_id |-> 0, image_id |-> 0,
     status |-> "", tunnel_urls |-> EmptyDict, value |-> FALSE]

\* what an endpoint of app.py answers: a JSON body with a status code, or the
\* exception it lets through; "none" while the call is in progress or when
\* the manager was called directly
NoResponse ==
    [kind |-> "none", status_code |-> 0, exc |-> "", error |-> "",
     keys |-> {}, success |-> FALSE, snapshotImageId |-> 0,
     sandbox_id |-> 0, status |-> ""]

NoOp ==
    [op |-> "none", pc |-> "idle", sandbox_id |-> 0, config |-> 0,
     snapshot_image_id |-> 0, sandbox |-> 0, image |-> 0,
     calls |-> << >>, seen |-> "", result |-> NoResult,
     response |-> NoResponse]

BackendInit ==
    /\ sandboxes = [id \in SandboxIds |-> "NonExistent"]
    /\ images = 0
    /\ volumes = {}

LifecycleInit ==
    /\ BackendInit
    /\ ops = EmptyBag
    /\ done = NoOp

SecretIdle ==
    /\ sc_config = SandboxConfig(Str("s1"), Str("wss://do"), Str("tok"), Str("jwt"),
                                 DEFAULT_IDLE_TIMEOUT_SECONDS, None, None)
    /\ sc_bundle = None
    /\ sc_by = "none"

TunnelIdle ==
    /\ tn_tunnels = EmptyDict
    /\ tn_urls = None
    /\ tn_by = "none"

RequestIdle ==
    /\ rq_request = InboundRequest(Str("s1"), DEFAULT_IDLE_TIMEOUT_SECONDS, None, None, 1)
    /\ rq_backend = [sandbox_id |-> 1, tunnels |-> EmptyDict]
    /\ rq_result = None
    /\ rq_by = "none"

(***************************************************************************)
(* Secret composition, for every SandboxConfig and process environment     *)
(***************************************************************************)
SecretInit ==
    /\ LifecycleInit
    /\ TunnelIdle
    /\ RequestIdle
    /\ environ \in SecretEnvirons
    /\ sc_config \in SecretConfigs
    /\ sc_bundle = None
    /\ sc_by = "none"

\* create_sandbox up to secrets=[modal.Secret.from_dict(secrets_dict)]
ComposeCreate ==
    /\ sc_by = "none"
    /\ sc_bundle' = Some(CreateSecrets(sc_config, environ))
    /\ sc_by' = "create"
    /\ UNCHANGED <<lifecycleVars, environ, sc_config, tunnelVars, requestVars>>

\* restore_sandbox up to secrets=[modal.Secret.from_dict(secrets_dict)]
ComposeRestore ==
    /\ sc_by = "none"
    /\ sc_bundle' = Some(RestoreSecrets(sc_config, environ))
    /\ sc_by' = "restore"
    /\ UNCHANGED <<lifecycleVars, environ, sc_config, tunnelVars, requestVars>>

SecretNext == ComposeCreate \/ ComposeRestore

SpecSecrets == SecretInit /\ [][SecretNext]_vars

(***************************************************************************)
(* Tunnel resolution, for every dict sandbox.tunnels can return            *)
(***************************************************************************)
TunnelInit ==
    /\ LifecycleInit
    /\ SecretIdle
    /\ RequestIdle
    /\ environ = EmptyDict
    /\ tn_tunnels \in TunnelInputs
    /\ tn_urls = None
    /\ tn_by = "none"

ResolveCreate ==
    /\ tn_by = "none"
    /\ tn_urls' = Some(CreateTunnelUrls(tn_tunnels))
    /\ tn_by' = "create"
    /\ UNCHANGED <<lifecycleVars, environ, secretVars, tn_tunnels, requestVars>>

ResolveRestore ==
    /\ tn_by = "none"
    /\ tn_urls' = Some(RestoreTunnelUrls(tn_tunnels))
    /\ tn_by' = "restore"
    /\ UNCHANGED <<lifecycleVars, environ, secretVars, tn_tunnels, requestVars>>

TunnelNext == ResolveCreate \/ ResolveRestore

SpecTunnels == TunnelInit /\ [][TunnelNext]_vars

(***************************************************************************)
(* The lifecycle: the manager's methods against the backend.  Each await   *)
(* of the source is one step; the steps of concurrent invocations and the  *)
(* backend's own transitions interleave.                                   *)
(***************************************************************************)
LifecycleConfigs ==
    << SandboxConfig(<<"s", ":", "1">>, Str("wss://do"), Str("tok"), Str("jwt"),
                     DEFAULT_IDLE_TIMEOUT_SECONDS,
                     Some([k \in {"ANTHROPIC_API_KEY", "SESSION_ID"} |->
                              IF k = "SESSION_ID" THEN Str("malicious")
                              ELSE Str("x")]),
                     None) >>

LifecycleEnvirons ==
    { [k \in {"OPENCODE_SERVER_PASSWORD"} |-> Str("pw")] }

Raise(exc, sid) ==
    [NoResult EXCEPT !.kind = "raise", !.exc = exc, !.sandbox_id = sid]

\* the backend calls an invocation has issued, in order, with their outcomes
Log(r, call, outcome) ==
    Append(r.calls, [call |-> call, outcome |-> outcome])

InFlight == BagToSet(ops)

\* no invocation has just completed: the one that completes is handed to its
\* caller (Return) before the next step is taken
Ready == done = NoOp

\* a caller may start an invocation: at most MaxCallers are in progress
CanStart == Ready /\ BagCardinality(ops) < MaxCallers

\* an exception no handler of the endpoint catches
Unhandled(result) ==
    [NoResponse EXCEPT !.kind = "raise", !.exc = result.exc]

\* a terminate endpoint that reports success whatever the manager raised
terminate_session_Swallow(result) ==
    [NoResponse EXCEPT !.kind = "json", !.status_code = 200,
                       !.keys = {"success"}, !.success = TRUE]

\* app.py, terminate_session, lines 80-82
terminate_session(result) ==
    IF result.kind = "raise" THEN Unhandled(result)
    ELSE [NoResponse EXCEPT !.kind = "json", !.status_code = 200,
                            !.keys = {"success"}, !.success = TRUE]

\* a hibernate endpoint that answers the conflict with an empty success body
hibernate_session_HideConflict(result) ==
    IF result.kind = "raise" /\ result.exc # "SandboxAlreadyFinishedError"
    THEN Unhandled(result)
    ELSE [NoResponse EXCEPT !.kind = "json", !.status_code = 200,
                            !.keys = {"snapshotImageId"},
                            !.snapshotImageId = result.image_id]

\* app.py, hibernate_session, lines 98-106
hibernate_session(result) ==
    IF result.kind = "raise"
    THEN IF result.exc = "SandboxAlreadyFinishedError"
         THEN [NoResponse EXCEPT !.kind = "json", !.status_code = 409,
                                 !.keys = {"error", "message"},
                                 !.error = "sandbox_already_finished"]
         ELSE Unhandled(result)
    ELSE [NoResponse EXCEPT !.kind = "json", !.status_code = 200,
                            !.keys = {"snapshotImageId"},
                            !.snapshotImageId = result.image_id]

\* app.py, session_status, lines 163-164: the manager's dict is returned
session_status(result) ==
    IF result.kind = "raise" THEN Unhandled(result)
    ELSE [NoResponse EXCEPT !.kind = "json", !.status_code = 200,
                            !.keys = {"sandbox_id", "status"},
                            !.sandbox_id = result.sandbox_id,
                            !.status = result.status]

\* terminate, hibernate and status are called through their endpoints
\* (app.py -> session.py -> sandboxes.py); the other methods at the manager
Response(rec) ==
    CASE rec.op = "terminate" -> terminate_session(rec.result)
      [] rec.op = "hibernate" -> hibernate_session(rec.result)
      [] rec.op = "status" -> session_status(rec.result)
      [] OTHER -> NoResponse

\* the invocation as its caller saw it
Completed(rec) == [rec EXCEPT !.pc = "done", !.response = Response(rec)]

\* a new invocation reaches its first await and goes on
Start(rec) ==
    /\ ops' = ops (+) SetToBag({rec})
    /\ done' = NoOp

\* a new invocation returns or raises at its first await
StartFinish(rec) ==
    /\ ops' = ops
    /\ done' = Completed(rec)

\* the invocation r goes on to its next await
Continue(r, rec) ==
    /\ ops' = (ops (-) SetToBag({r})) (+) SetToBag({rec})
    /\ done' = NoOp

\* the invocation r returns or raises
Finish(r, rec) ==
    /\ ops' = ops (-) SetToBag({r})
    /\ done' = Completed(rec)

\* the id the backend assigns to the next sandbox
FreshId == CHOOSE id \in SandboxIds :
    /\ sandboxes[id] = "NonExistent"
    /\ \A j \in SandboxIds : j < id => sandboxes[j] # "NonExistent"

\* the model stops creating sandboxes when the ids are used up, and stops
\* hibernating when as many snapshots as sandboxes may exist
CanCreate == \E id \in SandboxIds : sandboxes[id] = "NonExistent"
Hibernating ==
    BagCardinality([r \in {q \in InFlight : q.op = "hibernate" /\ q.pc = "snapshot"}
                       |-> CopiesIn(r, ops)])
CanHibernate == images + Hibernating < MaxSandboxes

(***************************************************************************)
(* Backend primitives: the outcomes each call can have in the current      *)
(* backend state.  "ok" or the name of the exception raised.               *)
(***************************************************************************)
\* modal.Sandbox.from_id.aio(sandbox_id): an id the backend never assigned is
\* not found; a sandbox that has exited may still be resolved (its snapshot
\* is then rejected) or be unknown to the backend by now
from_id_outcomes(id) ==
    CASE sandboxes[id] = "Running" -> {"ok", "BackendError"}
      [] sandboxes[id] = "Terminated" -> {"ok", "NotFoundError", "BackendError"}
      [] OTHER -> {"NotFoundError", "BackendError"}

\* sandbox.snapshot_filesystem.aio(timeout=55): a sandbox that has exited
\* is rejected with ConflictError
snapshot_outcomes(id) ==
    IF sandboxes[id] = "Running" THEN {"ok", "BackendError"}
    ELSE {"ConflictError", "BackendError"}

\* sandbox.terminate.aio()
terminate_outcomes(id) == {"ok", "BackendError"}

\* modal.Sandbox.create.aio(...): the image must exist
create_outcomes(image) ==
    IF image.kind = "base" \/ image.id \in 1..images
    THEN {"ok", "BackendError"}
    ELSE {"NotFoundError", "BackendError"}

\* sandbox.tunnels.aio(): a dict port -> Tunnel, or a failure
TunnelUrl(id, port) == <<"https://", ToString(id), "-", ToString(port), ".modal.host">>
TunnelPortSets == {{OPENCODE_PORT, GATEWAY_PORT}, {GATEWAY_PORT}, {}}
tunnels_outcomes(id) ==
    {Some([p \in P |-> TunnelUrl(id, p)]) : P \in TunnelPortSets} \cup {None}

Terminated(id) == [sandboxes EXCEPT ![id] = "Terminated"]

(***************************************************************************)
(* create_sandbox / restore_sandbox                                        *)
(***************************************************************************)
\* _get_image, lines 212-216: always the base image
get_image(image_type) == [kind |-> "base", id |-> 0]

\* modal.Image.from_id(snapshot_image_id), line 160
image_from_id(snapshot_image_id) == [kind |-> "snapshot", id |-> snapshot_image_id]

\* the arguments of modal.Sandbox.create.aio in create_sandbox, lines 85-100
CreateRequest(image, config, env) ==
    [command |-> <<"/bin/bash", "/start.sh">>,
     image |-> image,
     encrypted_ports |-> <<OPENCODE_PORT, GATEWAY_PORT>>,
     timeout |-> MAX_TIMEOUT_SECONDS,
     idle_timeout |-> config.idle_timeout_seconds + MODAL_IDLE_TIMEOUT_BUFFER_SECONDS,
     secrets |-> CreateSecrets(config, env),
     workspace_volume |-> workspace_volume_name(config.session_id),
     create_if_missing |-> TRUE,
     whisper_volume |-> "WHISPER_MODELS_VOLUME"]

\* restore_sandbox passing the caller's idle timeout unmodified
RestoreRequest_NoBuffer(image, config, env) ==
    [command |-> <<"/bin/bash", "/start.sh">>,
     image |-> image,
     encrypted_ports |-> <<OPENCODE_PORT, GATEWAY_PORT>>,
     timeout |-> MAX_TIMEOUT_SECONDS,
     idle_timeout |-> config.idle_timeout_seconds,
     secrets |-> RestoreSecrets(config, env),
     workspace_volume |-> workspace_volume_name(config.session_id),
     create_if_missing |-> TRUE,
     whisper_volume |-> "WHISPER_MODELS_VOLUME"]

\* the arguments of modal.Sandbox.create.aio in restore_sandbox, lines 178-193
RestoreRequest(image, config, env) ==
    [command |-> <<"/bin/bash", "/start.sh">>,
     image |-> image,
     encrypted_ports |-> <<OPENCODE_PORT, GATEWAY_PORT>>,
     timeout |-> MAX_TIMEOUT_SECONDS,
     idle_timeout |-> config.idle_timeout_seconds + MODAL_IDLE_TIMEOUT_BUFFER_SECONDS,
     secrets |-> RestoreSecrets(config, env),
     workspace_volume |-> workspace_volume_name(config.session_id),
     create_if_missing |-> TRUE,
     whisper_volume |-> "WHISPER_MODELS_VOLUME"]

\* the backend's side of Sandbox.create: on success a new Running sandbox
\* and the workspace volume created if missing; then the manager goes on to
\* the tunnels, or the failure propagates
BackendCreate(op, c, img, req, o) ==
    /\ CanStart
    /\ CanCreate
    /\ LET rec == [NoOp EXCEPT !.op = op, !.config = c, !.snapshot_image_id = img,
                               !.calls = Log(NoOp, "create", o)]
       IN  IF o = "ok"
           THEN /\ sandboxes' = [sandboxes EXCEPT ![FreshId] = "Running"]
                /\ volumes' = volumes \cup {req.workspace_volume}
                /\ Start([rec EXCEPT !.pc = "tunnels", !.sandbox = FreshId])
           ELSE /\ StartFinish([rec EXCEPT !.result = Raise(o, 0)])
                /\ UNCHANGED <<sandboxes, volumes>>
    /\ UNCHANGED <<images, environ, secretVars, tunnelVars, requestVars>>

\* create_sandbox, lines 61-100
CreateCall ==
    \E c \in DOMAIN LifecycleConfigs :
        LET config == LifecycleConfigs[c]
            image == get_image(config.image_type)
        IN  \E o \in create_outcomes(image) :
               BackendCreate("create", c, 0, CreateRequest(image, config, environ), o)

\* restore_sandbox, lines 158-193
RestoreCall ==
    \E c \in DOMAIN LifecycleConfigs, img \in 1..(images + 1) :
        LET config == LifecycleConfigs[c]
            image == image_from_id(img)
        IN  \E o \in create_outcomes(image) :
               BackendCreate("restore", c, img, RestoreRequest(image, config, environ), o)

\* after tunnels = await sandbox.tunnels.aio(): the failure propagates, or
\* the SandboxResult is returned
TunnelsDone(r, t, tunnel_urls) ==
    /\ Finish(r,
            IF t = None
            THEN [r EXCEPT !.result = Raise("BackendError", 0),
                           !.calls = Log(r, "tunnels", "BackendError")]
            ELSE [r EXCEPT !.result = [NoResult EXCEPT
                               !.kind = "SandboxResult",
                               !.sandbox_id = r.sandbox,
                               !.tunnel_urls = tunnel_urls],
                           !.calls = Log(r, "tunnels", "ok")])
    /\ UNCHANGED <<backendVars, environ, secretVars, tunnelVars, requestVars>>

\* create_sandbox, lines 102-117
CreateTunnels(r) ==
    /\ Ready
    /\ r.op = "create"
    /\ r.pc = "tunnels"
    /\ \E t \in tunnels_outcomes(r.sandbox) :
         TunnelsDone(r, t, IF t = None THEN EmptyDict ELSE CreateTunnelUrls(t[1]))

\* restore_sandbox, lines 195-210
RestoreTunnels(r) ==
    /\ Ready
    /\ r.op = "restore"
    /\ r.pc = "tunnels"
    /\ \E t \in tunnels_outcomes(r.sandbox) :
         TunnelsDone(r, t, IF t = None THEN EmptyDict ELSE RestoreTunnelUrls(t[1]))

(***************************************************************************)
(* terminate_sandbox, lines 119-122                                        *)
(***************************************************************************)
\* sandbox = await modal.Sandbox.from_id.aio(sandbox_id)
TerminateLookup ==
    /\ CanStart
    /\ \E id \in SandboxIds : \E o \in from_id_outcomes(id) :
         LET rec == [NoOp EXCEPT !.op = "terminate", !.sandbox_id = id,
                                 !.calls = Log(NoOp, "from_id", o)]
         IN  IF o = "ok"
             THEN Start([rec EXCEPT !.sandbox = id, !.pc = "terminate"])
             ELSE StartFinish([rec EXCEPT !.result = Raise(o, 0)])
    /\ UNCHANGED <<backendVars, environ, secretVars, tunnelVars, requestVars>>

\* a terminate_sandbox that reports success when terminate failed
terminate_return_Swallow(outcome) == [NoResult EXCEPT !.kind = "none"]

\* line 122: the failure of terminate propagates, or None is returned
terminate_return(outcome) ==
    IF outcome = "ok" THEN [NoResult EXCEPT !.kind = "none"]
    ELSE Raise(outcome, 0)

\* await sandbox.terminate.aio(); returns None
TerminateCall(r) ==
    /\ Ready
    /\ r.op = "terminate"
    /\ r.pc = "terminate"
    /\ \E o \in terminate_outcomes(r.sandbox) :
         /\ sandboxes' = IF o = "ok" THEN Terminated(r.sandbox) ELSE sandboxes
         /\ Finish(r, [r EXCEPT
                !.calls = Log(r, "terminate", o),
                !.result = terminate_return(o)])
    /\ UNCHANGED <<images, volumes, environ, secretVars, tunnelVars, requestVars>>

(***************************************************************************)
(* delete_workspace_volume, lines 124-131                                  *)
(***************************************************************************)
\* modal.Volume.delete.aio(volume_name)
volume_delete_outcomes(volume_name) ==
    IF volume_name \in volumes THEN {"ok", "BackendError"}
    ELSE {"NotFoundError", "BackendError"}

\* a delete_workspace_volume without the except clause
delete_result_NoCatch(outcome) ==
    IF outcome = "ok" THEN [NoResult EXCEPT !.kind = "bool", !.value = TRUE]
    ELSE Raise(outcome, 0)

\* lines 127-131: True; except NotFoundError: False; anything else propagates
delete_result(outcome) ==
    CASE outcome = "ok" -> [NoResult EXCEPT !.kind = "bool", !.value = TRUE]
      [] outcome = "NotFoundError" -> [NoResult EXCEPT !.kind = "bool", !.value = FALSE]
      [] OTHER -> Raise(outcome, 0)

DeleteVolume ==
    /\ CanStart
    /\ \E c \in DOMAIN LifecycleConfigs :
         LET volume_name == workspace_volume_name(LifecycleConfigs[c].session_id)
         IN  \E o \in volume_delete_outcomes(volume_name) :
                /\ volumes' = IF o = "ok" THEN volumes \ {volume_name} ELSE volumes
                /\ StartFinish([NoOp EXCEPT !.op = "delete_volume", !.config = c,
                                            !.calls = Log(NoOp, "volume_delete", o),
                                            !.result = delete_result(o)])
    /\ UNCHANGED <<sandboxes, images, environ, secretVars, tunnelVars, requestVars>>

(***************************************************************************)
(* get_sandbox_status, lines 133-145                                       *)
(***************************************************************************)
\* a variant that lets the failure of the lookup reach the caller
status_result_Propagate(sandbox_id, outcome) ==
    IF outcome = "ok"
    THEN [NoResult EXCEPT !.kind = "status", !.sandbox_id = sandbox_id,
                          !.status = "running"]
    ELSE Raise(outcome, 0)

\* the lookup succeeds: "running"; except Exception: "terminated"
status_result(sandbox_id, outcome) ==
    [NoResult EXCEPT !.kind = "status",
                     !.sandbox_id = sandbox_id,
                     !.status = IF outcome = "ok" THEN "running" ELSE "terminated"]

StatusLookup ==
    /\ CanStart
    /\ \E id \in SandboxIds : \E o \in from_id_outcomes(id) :
         StartFinish([NoOp EXCEPT !.op = "status", !.sandbox_id = id,
                                  !.seen = sandboxes[id],
                                  !.calls = Log(NoOp, "from_id", o),
                                  !.result = status_result(id, o)])
    /\ UNCHANGED <<backendVars, environ, secretVars, tunnelVars, requestVars>>

(***************************************************************************)
(* snapshot_and_terminate, lines 147-156                                   *)
(***************************************************************************)
\* line 149: sandbox = await modal.Sandbox.from_id.aio(sandbox_id)
HibernateLookup ==
    /\ CanStart
    /\ CanHibernate
    /\ \E id \in SandboxIds : \E o \in from_id_outcomes(id) :
         LET rec == [NoOp EXCEPT !.op = "hibernate", !.sandbox_id = id,
                                 !.seen = sandboxes[id],
                                 !.calls = Log(NoOp, "from_id", o)]
         IN  IF o = "ok"
             THEN Start([rec EXCEPT !.sandbox = id, !.pc = "snapshot"])
             ELSE StartFinish([rec EXCEPT !.result = Raise(o, 0)])
    /\ UNCHANGED <<backendVars, environ, secretVars, tunnelVars, requestVars>>

\* a variant without the except clause: ConflictError reaches the caller
snapshot_except_NoCatch(exc, sandbox_id) == Raise(exc, 0)

\* a variant with a bare except: every failure of the snapshot is reported
\* as SandboxAlreadyFinishedError
snapshot_except_CatchAll(exc, sandbox_id) ==
    Raise("SandboxAlreadyFinishedError", sandbox_id)

\* a variant that reports the conflict as a generic failure
snapshot_except_Generic(exc, sandbox_id) == Raise("BackendError", 0)

\* lines 152-154: except modal.exception.ConflictError:
\*     raise SandboxAlreadyFinishedError(sandbox_id)
\* any other exception of the snapshot is not caught
snapshot_except(exc, sandbox_id) ==
    IF exc = "ConflictError"
    THEN Raise("SandboxAlreadyFinishedError", sandbox_id)
    ELSE Raise(exc, 0)

\* lines 150-154: image = await sandbox.snapshot_filesystem.aio(timeout=55)
HibernateSnapshot(r) ==
    /\ Ready
    /\ r.op = "hibernate"
    /\ r.pc = "snapshot"
    /\ \E o \in snapshot_outcomes(r.sandbox) :
         IF o = "ok"
         THEN /\ images' = images + 1
              /\ Continue(r, [r EXCEPT
                     !.pc = "terminate",
                     !.image = images + 1,
                     !.calls = Log(r, "snapshot_filesystem", o)])
         ELSE /\ images' = images
              /\ Finish(r, [r EXCEPT
                     !.result = snapshot_except(o, r.sandbox_id),
                     !.calls = Log(r, "snapshot_filesystem", o)])
    /\ UNCHANGED <<sandboxes, volumes, environ, secretVars, tunnelVars, requestVars>>

\* a variant that swallows the failure of terminate and returns the id
hibernate_return_IgnoreTerminate(outcome, image) ==
    [NoResult EXCEPT !.kind = "snapshot", !.image_id = image]

\* lines 155-156: after await sandbox.terminate.aio(): return image.object_id,
\* or the failure of terminate propagates
hibernate_return(outcome, image) ==
    IF outcome = "ok"
    THEN [NoResult EXCEPT !.kind = "snapshot", !.image_id = image]
    ELSE Raise(outcome, 0)

\* line 155: await sandbox.terminate.aio()
HibernateTerminate(r) ==
    /\ Ready
    /\ r.op = "hibernate"
    /\ r.pc = "terminate"
    /\ \E o \in terminate_outcomes(r.sandbox) :
         /\ sandboxes' = IF o = "ok" THEN Terminated(r.sandbox) ELSE sandboxes
         /\ Finish(r, [r EXCEPT
                !.calls = Log(r, "terminate", o),
                !.result = hibernate_return(o, r.image)])
    /\ UNCHANGED <<images, volumes, environ, secretVars, tunnelVars, requestVars>>

(***************************************************************************)
(* The backend's own transitions                                           *)
(***************************************************************************)
\* the idle timeout elapses: the backend reclaims a running sandbox
IdleTimeout(id) ==
    /\ Ready
    /\ sandboxes[id] = "Running"
    /\ sandboxes' = Terminated(id)
    /\ done' = NoOp
    /\ UNCHANGED <<images, volumes, ops, environ, secretVars, tunnelVars, requestVars>>

\* the caller of the completed invocation has its result or its exception
Return ==
    /\ ~Ready
    /\ done' = NoOp
    /\ UNCHANGED <<backendVars, ops, environ, secretVars, tunnelVars, requestVars>>

Init ==
    /\ LifecycleInit
    /\ environ \in LifecycleEnvirons
    /\ SecretIdle
    /\ TunnelIdle
    /\ RequestIdle

Next ==
    \/ CreateCall
    \/ \E r \in InFlight : CreateTunnels(r)
    \/ RestoreCall
    \/ \E r \in InFlight : RestoreTunnels(r)
    \/ TerminateLookup
    \/ \E r \in InFlight : TerminateCall(r)
    \/ DeleteVolume
    \/ StatusLookup
    \/ HibernateLookup
    \/ \E r \in InFlight : HibernateSnapshot(r)
    \/ \E r \in InFlight : HibernateTerminate(r)
    \/ \E id \in SandboxIds : IdleTimeout(id)
    \/ Return

Spec == Init /\ [][Next]_vars

(***************************************************************************)
(* One create or restore call from the request down to the backend, for    *)
(* every request and every answer of the backend, entered at the manager   *)
(* (sandboxes.py), at the session layer (session.py) or at the endpoint    *)
(* (app.py).  The backend calls succeed here; their failures are part of   *)
(* the lifecycle above.                                                    *)
(***************************************************************************)
SandboxConfigFields ==
    {"session_id", "user_id", "workspace", "do_ws_url", "runner_token",
     "jwt_secret", "image_type", "idle_timeout_seconds", "env_vars",
     "persona_files"}

\* the SandboxConfig a direct caller of the manager builds from the request
ConfigOf(request) == [f \in SandboxConfigFields |-> request[f]]

\* what a call leaves behind: the SandboxConfig that reached the manager, the
\* arguments of Sandbox.create, and the SandboxResult returned
CallResult(config, request, backend, tunnel_urls) ==
    [kind |-> "SandboxResult", exc |-> "",
     config |-> Some(config), request |-> Some(request),
     sandbox_id |-> backend.sandbox_id, tunnel_urls |-> tunnel_urls]

CallRaise(exc) ==
    [kind |-> "raise", exc |-> exc, config |-> None, request |-> None,
     sandbox_id |-> 0, tunnel_urls |-> EmptyDict]

\* create_sandbox, lines 61-117
create_sandbox(config, env, backend) ==
    LET image == get_image(config.image_type)
    IN  CallResult(config, CreateRequest(image, config, env), backend,
                   CreateTunnelUrls(backend.tunnels))

\* restore_sandbox starting from the image chosen by image_type
restore_sandbox_BaseImage(config, snapshot_image_id, env, backend) ==
    LET image == get_image(config.image_type)
    IN  CallResult(config, RestoreRequest(image, config, env), backend,
                   RestoreTunnelUrls(backend.tunnels))

\* restore_sandbox, lines 158-210
restore_sandbox(config, snapshot_image_id, env, backend) ==
    LET image == image_from_id(snapshot_image_id)
    IN  CallResult(config, RestoreRequest(image, config, env), backend,
                   RestoreTunnelUrls(backend.tunnels))

\* session.py, lines 12-22: the fields of the dataclass CreateSessionRequest
CreateSessionRequestFields ==
    {"session_id", "user_id", "workspace", "image_type", "do_ws_url",
     "runner_token", "jwt_secret", "idle_timeout_seconds", "env_vars"}

\* the generated __init__: a keyword that is no field raises TypeError (None)
CreateSessionRequest(kwargs) ==
    IF DOMAIN kwargs \subseteq CreateSessionRequestFields
    THEN Some(kwargs) ELSE None

\* session.py, lines 39-49 and 71-81: persona_files is not passed and keeps
\* the default of SandboxConfig
SessionConfig(req) ==
    [session_id |-> req.session_id,
     user_id |-> req.user_id,
     workspace |-> req.workspace,
     do_ws_url |-> req.do_ws_url,
     runner_token |-> req.runner_token,
     jwt_secret |-> req.jwt_secret,
     image_type |-> req.image_type,
     idle_timeout_seconds |-> req.idle_timeout_seconds,
     env_vars |-> req.env_vars,
     persona_files |-> None]

\* SessionManager.create, lines 37-56: the response repeats the result's
\* sandbox_id and tunnel_urls
SessionManager_create(req, env, backend) ==
    create_sandbox(SessionConfig(req), env, backend)

\* SessionManager.restore, lines 69-88
SessionManager_restore(req, snapshot_image_id, env, backend) ==
    restore_sandbox(SessionConfig(req), snapshot_image_id, env, backend)

\* the keyword arguments app.py passes to CreateSessionRequest (48-59, 130-141)
EndpointKwargs(request) ==
    [f \in CreateSessionRequestFields \cup {"persona_files"} |-> request[f]]

\* app.py, create_session, lines 48-66
create_session(request, env, backend) ==
    LET req == CreateSessionRequest(EndpointKwargs(request))
    IN  IF req = None THEN CallRaise("TypeError")
        ELSE SessionManager_create(req[1], env, backend)

\* app.py, restore_session, lines 130-148
restore_session(request, env, backend) ==
    LET req == CreateSessionRequest(EndpointKwargs(request))
    IN  IF req = None THEN CallRaise("TypeError")
        ELSE SessionManager_restore(req[1], request.snapshot_image_id, env, backend)

\* the CreateSessionRequest a direct caller of the session layer can build
SessionRequestOf(request) == [f \in CreateSessionRequestFields |-> request[f]]

RequestInit ==
    /\ LifecycleInit
    /\ SecretIdle
    /\ TunnelIdle
    /\ environ \in RequestEnvirons
    /\ rq_request \in RequestInputs
    /\ rq_backend \in BackendAnswers
    /\ rq_result = None
    /\ rq_by = "none"

Called(by, result) ==
    /\ rq_by = "none"
    /\ rq_by' = by
    /\ rq_result' = Some(result)
    /\ UNCHANGED <<lifecycleVars, environ, secretVars, tunnelVars, rq_request, rq_backend>>

ManagerCreate ==
    Called("create_sandbox", create_sandbox(ConfigOf(rq_request), environ, rq_backend))

ManagerRestore ==
    Called("restore_sandbox",
           restore_sandbox(ConfigOf(rq_request), rq_request.snapshot_image_id,
                           environ, rq_backend))

SessionCreate ==
    Called("SessionManager.create",
           SessionManager_create(SessionRequestOf(rq_request), environ, rq_backend))

SessionRestore ==
    Called("SessionManager.restore",
           SessionManager_restore(SessionRequestOf(rq_request),
                                  rq_request.snapshot_image_id, environ, rq_backend))

EndpointCreate ==
    Called("create_session", create_session(rq_request, environ, rq_backend))

EndpointRestore ==
    Called("restore_session", restore_session(rq_request, environ, rq_backend))

RequestNext ==
    \/ ManagerCreate
    \/ ManagerRestore
    \/ SessionCreate
    \/ SessionRestore
    \/ EndpointCreate
    \/ EndpointRestore

SpecRequests == RequestInit /\ [][RequestNext]_vars

(***************************************************************************)
(* Properties of the lifecycle (Spec).  done is the invocation the latest  *)
(* step completed, with the backend calls it issued and what it returned   *)
(* or raised.                                                              *)
(***************************************************************************)
Call(call, outcome) == [call |-> call, outcome |-> outcome]

TerminateIssued(r) == \E n \in 1..Len(r.calls) : r.calls[n].call = "terminate"

\* the lookup succeeded and the backend rejected the snapshot as a conflict
ConflictRejected(r) ==
    /\ r.op = "hibernate"
    /\ r.calls = <<Call("from_id", "ok"), Call("snapshot_filesystem", "ConflictError")>>

\* the lookup failed, or the snapshot failed otherwise than by the conflict
FailedBeforeTerminate(r) ==
    /\ r.op = "hibernate"
    /\ \/ /\ Len(r.calls) = 1
          /\ r.calls[1].outcome # "ok"
       \/ /\ Len(r.calls) = 2
          /\ r.calls[2].outcome \notin {"ok", "ConflictError"}

\* C1: a Hibernate whose snapshot the backend rejects as a conflict ends by
\* raising SandboxAlreadyFinishedError with the sandbox_id it was given, not
\* another error and not a snapshot id, and it has issued no terminate call.
C1_ConflictIsAlreadyFinished ==
    ConflictRejected(done) =>
        /\ done.result = Raise("SandboxAlreadyFinishedError", done.sandbox_id)
        /\ ~TerminateIssued(done)

C1_Witness ==
    /\ ConflictRejected(done)
    /\ sandboxes[done.sandbox_id] = "Terminated"
    /\ done.result.exc = "SandboxAlreadyFinishedError"
    /\ done.result.sandbox_id = done.sandbox_id

\* C2: a Hibernate whose lookup fails, or whose snapshot fails otherwise
\* than by the conflict, has issued no terminate call and raises the error
\* of the failed call itself (not SandboxAlreadyFinishedError, not a
\* snapshot id); the step that ends it leaves every sandbox's state as it was.
C2_FailsClosed ==
    /\ [](FailedBeforeTerminate(done) =>
            /\ ~TerminateIssued(done)
            /\ done.result = Raise(done.calls[Len(done.calls)].outcome, 0)
            /\ done.result.exc \in {"NotFoundError", "BackendError"})
    /\ [][FailedBeforeTerminate(done') => sandboxes' = sandboxes]_vars

C2_Witness ==
    /\ FailedBeforeTerminate(done)
    /\ Len(done.calls) = 2
    /\ sandboxes[done.sandbox_id] = "Running"
    /\ done.result = Raise("BackendError", 0)

\* C3: Hibernate returns a snapshot image id only after the lookup, the
\* snapshot and the terminate succeeded in this order; the id is that of the
\* image the snapshot produced and the sandbox is then Terminated.  The
\* terminate is issued only after the snapshot has succeeded, and if it
\* fails its error is raised and no id is returned.
C3_SnapshotThenTerminate ==
    /\ done.result.kind = "snapshot" =>
          /\ done.op = "hibernate"
          /\ done.calls = <<Call("from_id", "ok"),
                            Call("snapshot_filesystem", "ok"),
                            Call("terminate", "ok")>>
          /\ done.image \in 1..images
          /\ done.result.image_id = done.image
          /\ sandboxes[done.sandbox_id] = "Terminated"
    /\ \A r \in InFlight \cup {done} :
          (r.op = "hibernate" /\ (r.pc = "terminate" \/ TerminateIssued(r))) =>
              /\ SubSeq(r.calls, 1, 2) = <<Call("from_id", "ok"),
                                           Call("snapshot_filesystem", "ok")>>
              /\ r.image \in 1..images
    /\ (done.op = "hibernate" /\ Len(done.calls) = 3 /\ done.calls[3].outcome # "ok") =>
          done.result = Raise(done.calls[3].outcome, 0)

C3_Witness ==
    /\ done.op = "hibernate"
    /\ done.result.kind = "snapshot"
    /\ done.result.image_id = done.image
    /\ done.image = images
    /\ sandboxes[done.sandbox_id] = "Terminated"

\* C4: Status always returns {sandbox_id, status} with the id it was given,
\* for every id and every result of the lookup: "running" when the lookup
\* succeeded, "terminated" when it failed; it never raises, and a caller can
\* always get this answer.
C4_StatusTotal ==
    /\ done.op = "status" =>
          /\ Len(done.calls) = 1
          /\ done.calls[1].call = "from_id"
          /\ done.result.kind = "status"
          /\ done.result.sandbox_id = done.sandbox_id
          /\ done.result.status = IF done.calls[1].outcome = "ok"
                                  THEN "running" ELSE "terminated"
    /\ CanStart => ENABLED StatusLookup

C4_Witness ==
    /\ done.op = "status"
    /\ done.seen = "NonExistent"
    /\ done.calls = <<Call("from_id", "NotFoundError")>>
    /\ done.result.status = "terminated"

\* C5: a Status query for a sandbox that is Terminated when it is looked up
\* (terminated, hibernated or reclaimed by the idle timeout) reports
\* "terminated"; in particular it does not report "running" when the lookup
\* of the exited sandbox succeeds, the state in which Hibernate ends with
\* SandboxAlreadyFinishedError.
C5_TerminatedReportsTerminated ==
    (done.op = "status" /\ done.seen = "Terminated") =>
        done.result.status = "terminated"

\* C14: across Create, Restore, Terminate, Hibernate and Status a workspace
\* volume that exists is never removed; only delete_workspace_volume removes
\* it, returning True when it deleted the volume and False, without raising,
\* when the volume does not exist.
C14_VolumeKept ==
    /\ [](done.op = "delete_volume" =>
            LET volume_name == workspace_volume_name(LifecycleConfigs[done.config].session_id)
                outcome == done.calls[1].outcome
            IN  /\ Len(done.calls) = 1
                /\ outcome = "ok" =>
                      /\ done.result.kind = "bool"
                      /\ done.result.value = TRUE
                      /\ volume_name \notin volumes
                /\ outcome = "NotFoundError" =>
                      /\ done.result.kind = "bool"
                      /\ done.result.value = FALSE
                      /\ volume_name \notin volumes)
    /\ [][~(volumes \subseteq volumes') =>
             /\ done'.op = "delete_volume"
             /\ done'.result.value = TRUE]_vars

C14_Witness ==
    /\ done.op = "delete_volume"
    /\ done.result.value = TRUE
    /\ volumes = {}
    /\ \E id \in SandboxIds : sandboxes[id] = "Terminated"
    /\ images > 0

\* every sandbox of the lifecycle is created or restored for a config of
\* LifecycleConfigs, which holds one session
session_of(id) == LifecycleConfigs[1].session_id

RunningOf(session_id) ==
    {id \in SandboxIds : sandboxes[id] = "Running" /\ session_of(id) = session_id}

\* C15: in every reachable state each session has at most one sandbox in
\* the Running state, whatever Create, Restore, Hibernate and Terminate calls
\* were made (two Creates for one session_id included).
C15_OneRunningPerSession ==
    \A c \in DOMAIN LifecycleConfigs :
        Cardinality(RunningOf(LifecycleConfigs[c].session_id)) <= 1

\* C16: Terminate with an id the backend does not recognize lets the failure
\* of the lookup (not found) reach the caller and issues no terminate
\* request; the endpoint answers {success: true} only when the lookup and
\* the terminate request both succeeded.
C16_TerminateUnknown ==
    done.op = "terminate" =>
        /\ done.calls[1] = Call("from_id", "NotFoundError") =>
              /\ Len(done.calls) = 1
              /\ done.result = Raise("NotFoundError", 0)
              /\ done.response.kind = "raise"
              /\ done.response.exc = "NotFoundError"
        /\ sandboxes[done.sandbox_id] = "NonExistent" =>
              /\ ~TerminateIssued(done)
              /\ done.result.kind = "raise"
              /\ done.response.kind = "raise"
        /\ done.response.success =>
              /\ done.response.kind = "json"
              /\ done.calls = <<Call("from_id", "ok"), Call("terminate", "ok")>>

C16_Witness ==
    /\ done.op = "terminate"
    /\ sandboxes[done.sandbox_id] = "NonExistent"
    /\ done.calls = <<Call("from_id", "NotFoundError")>>
    /\ done.response.exc = "NotFoundError"

NoTransientFailure(r) ==
    \A n \in 1..Len(r.calls) : r.calls[n].outcome # "BackendError"

C18_ConflictNotHidden ==
    done.op = "hibernate" =>
        /\ (done.result.kind = "raise" /\ done.result.exc = "SandboxAlreadyFinishedError") =>
              /\ done.response.kind = "json"
              /\ done.response.status_code = 409
              /\ done.response.error = "sandbox_already_finished"
              /\ "snapshotImageId" \notin done.response.keys
        /\ "snapshotImageId" \in done.response.keys =>
              /\ done.result.kind = "snapshot"
              /\ done.response.status_code = 200
              /\ done.response.snapshotImageId = done.result.image_id
              /\ done.result.image_id \in 1..images

C18_Witness ==
    /\ done.op = "hibernate"
    /\ ConflictRejected(done)
    /\ done.response.status_code = 409
    /\ done.response.keys = {"error", "message"}

\* what an invocation ends with when the backend call failed with outcome
FailureOf(r, outcome) ==
    CASE r.op = "status" ->
            [NoResult EXCEPT !.kind = "status", !.sandbox_id = r.sandbox_id,
                             !.status = "terminated"]
      [] r.op = "hibernate" /\ outcome = "ConflictError" ->
            Raise("SandboxAlreadyFinishedError", r.sandbox_id)
      [] OTHER -> Raise(outcome, 0)

\* C20: in one invocation of Create, Restore, Terminate, Hibernate or Status
\* each backend primitive is issued at most once; a failed backend call is
\* the last call of the invocation, which ends with that failure
\* (translated only by Status, to 'terminated', and by Hibernate for the
\* snapshot conflict, to SandboxAlreadyFinishedError).
C20_NoRetries ==
    \A r \in {q \in InFlight \cup {done} : q.op \notin {"none", "delete_volume"}} :
        /\ \A m, n \in 1..Len(r.calls) :
              r.calls[m].call = r.calls[n].call => m = n
        /\ \A n \in 1..Len(r.calls) :
              r.calls[n].outcome # "ok" =>
                  /\ n = Len(r.calls)
                  /\ r.pc = "done"
                  /\ r.result = FailureOf(r, r.calls[n].outcome)

C20_Witness ==
    /\ done.op = "restore"
    /\ done.calls = <<Call("create", "ok"), Call("tunnels", "BackendError")>>
    /\ done.result = Raise("BackendError", 0)

\* C21: every sandbox the backend created for a Create or a Restore has its
\* id returned to the caller: when the creation succeeded and the invocation
\* then raised, the sandbox is not left Running without a terminate having
\* been issued for it.
C21_CreatedIdReturned ==
    (done.op \in {"create", "restore"} /\ done.calls[1] = Call("create", "ok")) =>
        \/ /\ done.result.kind = "SandboxResult"
           /\ done.result.sandbox_id = done.sandbox
        \/ TerminateIssued(done)
        \/ sandboxes[done.sandbox] # "Running"

(***************************************************************************)
(* Properties of the secret composition (SpecSecrets)                      *)
(***************************************************************************)
CoreValueOf(config, k) ==
    CASE k = "DO_WS_URL" -> config.do_ws_url
      [] k = "RUNNER_TOKEN" -> config.runner_token
      [] k = "SESSION_ID" -> config.session_id
      [] k = "JWT_SECRET" -> config.jwt_secret

CallerEnv == IF sc_config.env_vars = None THEN EmptyDict ELSE sc_config.env_vars[1]
Composed == sc_by \in {"create", "restore"}
PasswordKeys ==
    IF get_secret(environ, "OPENCODE_SERVER_PASSWORD") # EmptyStr
    THEN {"OPENCODE_SERVER_PASSWORD"} ELSE {}

\* C6: in Create and in Restore, each of the four core keys is in the bundle
\* with the core value when that value is non-empty, whatever the caller
\* supplied for it, and is absent from the bundle when the core value is
\* empty, even if the caller supplied a non-empty value for it.
C6_CoreKeysWin ==
    Composed =>
        \A k \in CoreKeys :
            IF CoreValueOf(sc_config, k) # EmptyStr
            THEN k \in DOMAIN sc_bundle[1]
                 /\ sc_bundle[1][k] = CoreValueOf(sc_config, k)
            ELSE k \notin DOMAIN sc_bundle[1]

C6_Witness ==
    /\ sc_by = "restore"
    /\ "DO_WS_URL" \in DOMAIN CallerEnv /\ CallerEnv["DO_WS_URL"] = Str("x")
    /\ "SESSION_ID" \in DOMAIN CallerEnv /\ CallerEnv["SESSION_ID"] = Str("x")
    /\ sc_config.do_ws_url = Str("wss://do")
    /\ sc_config.session_id = EmptyStr
    /\ sc_bundle[1]["DO_WS_URL"] = Str("wss://do")
    /\ "SESSION_ID" \notin DOMAIN sc_bundle[1]

\* C7: the bundle Create and Restore pass to the backend has no key that
\* maps to the empty string.
C7_NoEmptyValues ==
    Composed => \A k \in DOMAIN sc_bundle[1] : sc_bundle[1][k] # EmptyStr

C7_Witness ==
    /\ sc_by = "restore"
    /\ \E k \in DOMAIN CallerEnv : CallerEnv[k] = EmptyStr
    /\ sc_config.jwt_secret = EmptyStr
    /\ TruthyList(sc_config.persona_files)
    /\ "PERSONA_FILES_JSON" \in DOMAIN sc_bundle[1]
    /\ "JWT_SECRET" \notin DOMAIN sc_bundle[1]

NoCallerInput ==
    /\ sc_by = "create"
    /\ ~TruthyDict(sc_config.env_vars)
    /\ ~TruthyList(sc_config.persona_files)

NonEmptyCoreKeys == {k \in CoreKeys : CoreValueOf(sc_config, k) # EmptyStr}

\* C8 as stated: Create with no caller env vars and no persona files sends
\* a bundle whose key set is exactly the non-empty ones among the four core
\* keys, whatever the process environment holds.
C8_ExactlyCoreKeys ==
    NoCallerInput => DOMAIN sc_bundle[1] = NonEmptyCoreKeys

\* C8 amended: the key set is the non-empty ones among the four core keys,
\* plus OPENCODE_SERVER_PASSWORD exactly when the process environment holds
\* a non-empty value for it; nothing else of the environment is in it.
C8_CoreKeysAndPassword ==
    NoCallerInput =>
        /\ DOMAIN sc_bundle[1] = NonEmptyCoreKeys \cup PasswordKeys
        /\ \A k \in PasswordKeys : sc_bundle[1][k] = environ[k]

C8_Witness ==
    /\ NoCallerInput
    /\ sc_config.env_vars = Some(EmptyDict)
    /\ "ANTHROPIC_API_KEY" \in DOMAIN environ
    /\ DOMAIN sc_bundle[1] =
          {"DO_WS_URL", "SESSION_ID", "JWT_SECRET", "OPENCODE_SERVER_PASSWORD"}

\* C9 as stated: every caller env var whose key is not one of the four core
\* keys and whose value is non-empty is in the bundle with the caller's value.
C9_CallerKeysKept ==
    Composed =>
        \A k \in DOMAIN CallerEnv \ CoreKeys :
            CallerEnv[k] # EmptyStr =>
                k \in DOMAIN sc_bundle[1] /\ sc_bundle[1][k] = CallerEnv[k]

ReservedKeys ==
    CoreKeys \cup {"OPENCODE_SERVER_PASSWORD"} \cup
    (IF TruthyList(sc_config.persona_files) THEN {"PERSONA_FILES_JSON"} ELSE {})

\* C9 amended: every caller env var with a non-empty value is in the bundle
\* with the caller's value, provided its key is none of the four core keys,
\* is not OPENCODE_SERVER_PASSWORD, and is not PERSONA_FILES_JSON when a
\* non-empty persona file list is given.
C9_UnreservedCallerKeysKept ==
    Composed =>
        \A k \in DOMAIN CallerEnv \ ReservedKeys :
            CallerEnv[k] # EmptyStr =>
                k \in DOMAIN sc_bundle[1] /\ sc_bundle[1][k] = CallerEnv[k]

C9_Witness ==
    /\ sc_by = "restore"
    /\ DOMAIN CallerEnv = {"ANTHROPIC_API_KEY", "SESSION_ID", "PERSONA_FILES_JSON"}
    /\ CallerEnv["ANTHROPIC_API_KEY"] = Str("x")
    /\ CallerEnv["SESSION_ID"] = Str("x")
    /\ CallerEnv["PERSONA_FILES_JSON"] = Str("x")
    /\ ~TruthyList(sc_config.persona_files)
    /\ sc_config.session_id = Str("s1")
    /\ sc_bundle[1]["ANTHROPIC_API_KEY"] = Str("x")
    /\ sc_bundle[1]["PERSONA_FILES_JSON"] = Str("x")
    /\ sc_bundle[1]["SESSION_ID"] = Str("s1")

(***************************************************************************)
(* Properties of the tunnel resolution (SpecTunnels)                       *)
(***************************************************************************)
GatewayNames == {"gateway", "vscode", "vnc", "ttyd"}

\* C10: for every dict of tunnels the backend returns, Create and Restore
\* produce a map whose keys are "opencode" exactly when port 4096 is present
\* and gateway, vscode, vnc, ttyd exactly when port 9000 is present; the
\* three routes are the gateway URL suffixed by /vscode, /vnc, /ttyd; other
\* ports add nothing; and the resolution always produces a map.
C10_TunnelResolution ==
    /\ tn_by = "none" => ENABLED ResolveCreate /\ ENABLED ResolveRestore
    /\ tn_by \in {"create", "restore"} =>
        /\ tn_urls # None
        /\ DOMAIN tn_urls[1] =
              (IF OPENCODE_PORT \in DOMAIN tn_tunnels THEN {"opencode"} ELSE {})
              \cup
              (IF GATEWAY_PORT \in DOMAIN tn_tunnels THEN GatewayNames ELSE {})
        /\ OPENCODE_PORT \in DOMAIN tn_tunnels =>
              tn_urls[1]["opencode"] = tn_tunnels[OPENCODE_PORT]
        /\ GATEWAY_PORT \in DOMAIN tn_tunnels =>
              /\ tn_urls[1]["gateway"] = tn_tunnels[GATEWAY_PORT]
              /\ tn_urls[1]["vscode"] = tn_tunnels[GATEWAY_PORT] \o <<"/vscode">>
              /\ tn_urls[1]["vnc"] = tn_tunnels[GATEWAY_PORT] \o <<"/vnc">>
              /\ tn_urls[1]["ttyd"] = tn_tunnels[GATEWAY_PORT] \o <<"/ttyd">>

C10_Witness ==
    /\ tn_by = "restore"
    /\ DOMAIN tn_tunnels = {GATEWAY_PORT} \cup OtherPorts
    /\ DOMAIN tn_urls[1] = GatewayNames
    /\ tn_urls[1]["ttyd"] = <<"https://b.modal.host", "/ttyd">>

(***************************************************************************)
(* Properties of one create or restore call (SpecRequests)                 *)
(***************************************************************************)
Returned == rq_by # "none" /\ rq_result[1].kind = "SandboxResult"
\* the arguments of Sandbox.create the call sent to the backend
Sent == rq_result[1].request[1]

\* C11: in Create and in Restore alike the idle timeout given to the backend
\* is the requested idle_timeout_seconds plus the buffer of 1800 s, so it is
\* never below the requested value, and the wall-clock timeout given with it
\* is 24 h whatever the requested idle timeout.
C11_IdleTimeoutConvention ==
    Returned =>
        /\ Sent.idle_timeout = rq_request.idle_timeout_seconds + 1800
        /\ MODAL_IDLE_TIMEOUT_BUFFER_SECONDS = 30 * 60
        /\ Sent.idle_timeout >= rq_request.idle_timeout_seconds
        /\ Sent.timeout = 24 * 60 * 60

C11_Witness ==
    /\ rq_by = "restore_sandbox"
    /\ rq_request.idle_timeout_seconds = 900
    /\ Sent.idle_timeout = 2700
    /\ Sent.timeout = 86400

\* C12: for every SandboxConfig and snapshot id, Restore sends the backend
\* the creation request Create sends for that config (command, ports,
\* timeout, idle timeout, secrets, volumes) except for the image, which is
\* the snapshot image of the given id instead of the image chosen by
\* image_type; it resolves the tunnels as Create does and returns the
\* sandbox id the backend assigned.
C12_RestoreAsCreate ==
    rq_by = "restore_sandbox" =>
        LET created == create_sandbox(ConfigOf(rq_request), environ, rq_backend)
        IN  /\ Returned
            /\ rq_result[1].config = created.config
            /\ [Sent EXCEPT !.image = 0] = [created.request[1] EXCEPT !.image = 0]
            /\ Sent.image = [kind |-> "snapshot", id |-> rq_request.snapshot_image_id]
            /\ created.request[1].image = [kind |-> "base", id |-> 0]
            /\ rq_result[1].tunnel_urls = created.tunnel_urls
            /\ rq_result[1].sandbox_id = rq_backend.sandbox_id

C12_Witness ==
    /\ rq_by = "restore_sandbox"
    /\ TruthyList(rq_request.persona_files)
    /\ rq_request.env_vars # None
    /\ Sent.image.id = MaxSandboxes
    /\ "PERSONA_FILES_JSON" \in DOMAIN Sent.secrets
    /\ "gateway" \in DOMAIN rq_result[1].tunnel_urls
    /\ rq_result[1].sandbox_id = rq_backend.sandbox_id

\* C13: the workspace volume name is injective on session ids over the
\* character set with the colon and the hyphen: no other session id has the
\* volume name a call attached for its own session id.
C13_VolumeNameInjective ==
    Returned =>
        \A s2 \in SessionIds :
            workspace_volume_name(s2) = Sent.workspace_volume =>
                s2 = rq_request.session_id

\* C19: through the session layer and the endpoint, every field of the
\* inbound request reaches the manager's SandboxConfig unchanged; a non-empty
\* persona file list is in the secrets bundle, serialized under
\* PERSONA_FILES_JSON; the manager's sandbox_id and tunnel_urls are returned.
C19_SessionPassThrough ==
    rq_by \in {"SessionManager.create", "SessionManager.restore",
               "create_session", "restore_session"} =>
        /\ Returned
        /\ rq_result[1].config = Some(ConfigOf(rq_request))
        /\ TruthyList(rq_request.persona_files) =>
              /\ "PERSONA_FILES_JSON" \in DOMAIN Sent.secrets
              /\ Sent.secrets["PERSONA_FILES_JSON"] =
                    json_dumps(rq_request.persona_files[1])
        /\ rq_result[1].sandbox_id = rq_backend.sandbox_id
        /\ rq_result[1].tunnel_urls = CreateTunnelUrls(rq_backend.tunnels)

====
